---- MODULE Spec2Model ----
(***************************************************************************)
(* Authentication / session core of the contacts application:              *)
(*   src/src/api/auth.py      the register, login, refresh, logout routes  *)
(*   src/src/api/users.py     the /users/me route                          *)
(*   src/src/entity/models.py the users and refresh_tokens tables          *)
(*   src/src/schemas/user_schema.py  normalisation of registration input   *)
(*   src/main.py              the hourly cleanup_expired_tokens job        *)
(* The methods of AuthService (src/services/auth_services.py) are not part *)
(* of the sources at hand; they are modelled from sections 4.1-4.4 of the  *)
(* specification and are marked as such where they are defined.            *)
(*                                                                         *)
(* Time is counted in days.  The clock advances in steps of TickDays, so   *)
(* every stored timestamp is a multiple of TickDays.  Every await of a     *)
(* route handler is a separate step, so requests interleave with each      *)
(* other, with the clock and with the cleanup job.                         *)
(*                                                                         *)
(* Seven specifications share the actions:                                 *)
(*   Spec         login and refresh with the clock and the cleanup job     *)
(*   RaceSpec     login and refresh racing at one instant                  *)
(*   SessionSpec  login, refresh, logout and /users/me with the clock      *)
(*   RegSpec      register and login on an empty users table               *)
(*   SweepSpec    the cleanup job with runs that raise                     *)
(*   TxnSpec      refresh statement by statement, with aborted requests    *)
(*   FairSpec     Spec with the cleanup job run again and again            *)
(***************************************************************************)
EXTENDS Integers, Sequences, FiniteSets, TLC

VARIABLES now, users, refresh_tokens, denylist, minted, nextRaw, req, resp,
          rotated, registered, sweeps, cap, horizon, scheduler, session

vars == <<now, users, refresh_tokens, denylist, minted, nextRaw, req, resp,
          rotated, registered, sweeps, cap, horizon, scheduler, session>>

(* ------------------------------ bounds --------------------------------- *)
\* number of clock steps explored
MaxTicks == 3
\* number of refresh tokens issued in one behaviour of Spec
MaxTokens == 2
\* number of refresh tokens issued in one behaviour of RaceSpec
MaxRaceTokens == 3
\* number of refresh tokens issued in one behaviour of SessionSpec
MaxSessionTokens == 2
\* number of refresh tokens issued in one behaviour of SweepSpec
MaxSweepTokens == 1
\* number of runs of the cleanup job that raise in one behaviour
MaxFailures == 1
\* number of refresh tokens issued in one behaviour of TxnSpec
MaxTxnTokens == 3

(* ------------------------- program constants --------------------------- *)
\* settings.REFRESH_TOKEN_EXPIRE_DAYS, in days
RefreshTTL == 14
\* settings.ACCESS_TOKEN_EXPIRE_MINUTES, here 10080 minutes = 7 days
AccessTTL == 7
\* timedelta(days=7) of cleanup_expired_tokens
RetentionDays == 7

\* one clock step is one retention window
TickDays == RetentionDays

\* SQL NULL of the nullable column revoked_at (timestamps are >= 0)
NULL == 0 - 1

\* request slots: two requests can be in flight at once, which is what a race
\* between two handlers takes
Slots == {1, 2}
MaxTime == MaxTicks * TickDays

(* ------------------------------ strings -------------------------------- *)
\* A string is a sequence of characters; the alphabet has one upper-case
\* letter and the blank, which is all that strip() and lower() look at.
Blank == " "

RECURSIVE lstrip(_)
lstrip(s) == IF s # <<>> /\ Head(s) = Blank THEN lstrip(Tail(s)) ELSE s

RECURSIVE rstrip(_)
rstrip(s) ==
    IF s # <<>> /\ s[Len(s)] = Blank THEN rstrip(SubSeq(s, 1, Len(s) - 1)) ELSE s

\* str.strip()
strip(s) == rstrip(lstrip(s))

lower_char(c) == IF c = "A" THEN "a" ELSE IF c = "B" THEN "b" ELSE c

\* str.lower()
lower(s) == [i \in 1..Len(s) |-> lower_char(s[i])]

\* UserBase._strip: the username validator (mode="before")
username_strip(val) == strip(val)

\* UserBase._email_lower: the email validator (mode="before")
email_lower(val) == lower(strip(val))

(* ------------------------------ data model ----------------------------- *)
\* Inputs of the model: what clients type.
RawUsernames == {<<"a">>, <<Blank, "a">>, <<"b">>}
RawEmails == {<<"a", "@">>, <<"A", "@">>, <<"b", "@">>}
Passwords == {"p", "q"}
Salts == {1, 2}

\* Password Hasher (spec 4.1): the digest embeds the salt and the salted hash.
hash_password(plain, salt) == [salt |-> salt, hashed |-> <<salt, plain>>]

verify_password(plain, digest) == digest.hashed = <<digest.salt, plain>>

\* class User: id, username (unique), email (unique), hash_password
User(id, username, email, digest) ==
    [id |-> id, username |-> username, email |-> email, hash_password |-> digest]

\* class RefreshToken: id, user_id, token_hash (unique), expired_at, revoked_at.
\* created_at, ip_address and user_agent are never read by the code modelled
\* here and are left out.
RefreshToken(id, user_id, token_hash, expired_at) ==
    [id |-> id, user_id |-> user_id, token_hash |-> token_hash,
     expired_at |-> expired_at, revoked_at |-> NULL]

\* Raw refresh tokens are numbered in the order they are generated; 0 stands
\* for a string that was never issued.  Only the hash is stored.
token_hash_of(raw) == <<"sha", raw>>

\* Access token: a signed assertion of subject and expiry (spec 4.2).  sig is
\* FALSE for a token not signed with the server's key.
AccessToken(sub, exp) == [sub |-> sub, exp |-> exp, sig |-> TRUE]

NoAccess == [sub |-> <<>>, exp |-> 0, sig |-> FALSE]

Forged == [sub |-> <<"a">>, exp |-> MaxTime + AccessTTL, sig |-> FALSE]

\* session[r] holds the rows request r has written in its database session
\* and not committed; they are invisible to every other session.
\* one request slot: the route being served, the await it stands before, the
\* handler's arguments and locals, and the response
IdleReq ==
    [op |-> "idle", pc |-> "idle", tok |-> 0, acc |-> NoAccess, user |-> 0,
     new |-> 0, newacc |-> NoAccess,
     typed |-> <<>>, name |-> <<>>, email |-> <<>>, pw |-> ""]

\* the response sent by the step just taken: the route, the refresh token
\* the request presented (0 when the route takes none), for /register the
\* validated username and email, and the outcome
Response(op, tok, res) ==
    [op |-> op, tok |-> tok, name |-> <<>>, email |-> <<>>, res |-> res]

RegisterResponse(name, email, res) ==
    [op |-> "register", tok |-> 0, name |-> name, email |-> email, res |-> res]

\* the step just taken sent no response
NoResponse == Response("none", 0, "none")

\* the scheduler after lifespan has called add_job and start: the jobs it
\* holds, whether the host process is up, how the last run of the cleanup
\* job ended, and how many runs have raised
SchedulerStarted ==
    [jobs |-> {"cleanup_expired_tokens"}, host |-> "up", last |-> "none",
     errors |-> 0]

InFlight(r) == req[r].pc # "idle"

\* request slots are interchangeable: a new request takes the lowest free one
Free(r) == ~InFlight(r) /\ \A q \in Slots : q < r => InFlight(q)

(* --------------------------- User Directory ---------------------------- *)
UserByName(name) == {u \in users : u.username = name \/ u.email = name}

UserById(id) == {u \in users : u.id = id}

\* the users table without its unique constraints
users_unique_violation_none(row) == FALSE

\* unique=True on users.username and users.email: the INSERT of a row that
\* repeats either value is rejected
users_unique_violation(row) ==
    \E u \in users : u.username = row.username \/ u.email = row.email

\* AuthService.authenticate (spec 4.4): the id of the user, or 0 for
\* Unauthorized, when the user is absent or the password does not verify
authenticate(name, password) ==
    LET found == UserByName(name)
    IN  IF found = {} THEN 0
        ELSE LET u == CHOOSE u \in found : TRUE
             IN  IF verify_password(password, u.hash_password) THEN u.id ELSE 0

(* ----------------------------- Token Codec ----------------------------- *)
\* AuthService.create_access_token (spec 4.2 mint_access)
create_access_token(sub, t) == AccessToken(sub, t + AccessTTL)

\* spec 4.2 verify_access
verify_access(token, t) ==
    IF ~token.sig \/ token \notin minted THEN "Invalid"
    ELSE IF token.exp <= t THEN "Expired"
    ELSE "Ok"

\* AuthService.get_current_user (spec 4.4 resolve_current_user): the user id,
\* or Unauthorized
get_current_user(token, t) ==
    IF verify_access(token, t) # "Ok" THEN "Unauthorized"
    ELSE IF token \in denylist THEN "Unauthorized"
    ELSE IF UserByName(token.sub) = {} THEN "Unauthorized"
    ELSE "User"

CurrentUserId(token) == (CHOOSE u \in UserByName(token.sub) : TRUE).id

(* ------------------------- Refresh Token Store ------------------------- *)
RowsOf(raw) == {x \in refresh_tokens : x.token_hash = token_hash_of(raw)}

\* AuthService.validate_refresh_token (spec 4.3 validate)
validate_refresh_token(raw, t) ==
    IF RowsOf(raw) = {} THEN "NotFound"
    ELSE LET x == CHOOSE x \in RowsOf(raw) : TRUE
         IN  IF t >= x.expired_at THEN "Expired"
             ELSE IF x.revoked_at # NULL THEN "Revoked"
             ELSE "Ok"

OwnerOf(raw) == (CHOOSE x \in RowsOf(raw) : TRUE).user_id

\* unique=True on refresh_tokens.token_hash
token_hash_unique_violation(row) ==
    \E x \in refresh_tokens : x.token_hash = row.token_hash

\* AuthService.create_refresh_token (spec 4.3 issue): the table with the new
\* row; an INSERT that repeats a token_hash is rejected
create_refresh_token(raw, user_id, t) ==
    LET row == RefreshToken(raw, user_id, token_hash_of(raw), t + RefreshTTL)
    IN  IF token_hash_unique_violation(row) THEN refresh_tokens
        ELSE refresh_tokens \cup {row}

\* AuthService.revoke_refresh_token (spec 4.3 revoke): the table with
\* revoked_at set on the matching row, unless it is set already or no row
\* matches
revoke_refresh_token(raw, t) ==
    {IF x.token_hash = token_hash_of(raw) /\ x.revoked_at = NULL
        THEN [x EXCEPT !.revoked_at = t] ELSE x : x \in refresh_tokens}

\* AuthService.revoke_access_token (spec 4.4 logout): the denylist with the
\* token added
revoke_access_token(token) == denylist \cup {token}

(* ------------------------------ the clock ------------------------------ *)
\* the row of the refresh token a request has issued and not yet returned
NewRowOf(r) == CHOOSE x \in refresh_tokens : x.id = req[r].new

\* A request is over long before a refresh token's lifetime has passed: a
\* request that has issued a token responds before that token expires.
\* The denylist keeps an access token only for the rest of the token's
\* natural lifetime (spec 3), so an entry goes when its token expires.
Tick ==
    /\ now + TickDays <= horizon
    /\ \A r \in Slots :
         req[r].new # 0 => now + TickDays < NewRowOf(r).expired_at
    /\ now' = now + TickDays
    /\ denylist' = {a \in denylist : a.exp > now'}
    /\ sweeps' = 0
    /\ resp' = NoResponse
    /\ UNCHANGED <<users, refresh_tokens, minted, nextRaw, req, rotated, registered, cap, horizon,
                   scheduler, session>>

(* ------------------------------- clients ------------------------------- *)
\* A client can present a refresh token it was handed, or a string that was
\* never issued; a token minted by a request still in flight is not known yet.
Presentable ==
    {0} \cup {k \in 1..(nextRaw - 1) : \A r \in Slots : req[r].new # k}

PresentableAccess ==
    {Forged} \cup {a \in minted : \A r \in Slots : req[r].newacc # a}

\* a behaviour issues at most cap refresh tokens and ends at time horizon;
\* both are fixed by the initial state
TokensLeft ==
    (nextRaw - 1) + Cardinality({r \in Slots : req[r].pc = "issue"}) < cap

UsernameOf(id) == (CHOOSE u \in UserById(id) : TRUE).username

\* a write to refresh_tokens ends a run of consecutive cleanup jobs
SweepsAfter(table) == IF table = refresh_tokens THEN sweeps ELSE 0

(* ------------------------------ POST /login ----------------------------- *)
\* user = await auth_service.authenticate(form_data.username, form_data.password)
login_authenticate(r) ==
    /\ Free(r)
    /\ \E name \in RawUsernames, pw \in Passwords :
         LET id == authenticate(name, pw)
         IN  IF id = 0
             THEN /\ resp' = Response("login", 0, "Unauthorized")
                  /\ req' = req
             ELSE /\ TokensLeft
                  /\ resp' = NoResponse
                  /\ req' = [req EXCEPT ![r] =
                         [IdleReq EXCEPT !.op = "login", !.pc = "issue",
                                         !.user = id]]
    /\ UNCHANGED <<now, users, refresh_tokens, denylist, minted, nextRaw,
                   rotated, registered, sweeps, cap, horizon,
                   scheduler, session>>

\* access_token = create_access_token(user.username);
\* refresh_token = await create_refresh_token(user.id, ...); return TokenResponse
login_issue(r) ==
    /\ req[r].op = "login" /\ req[r].pc = "issue"
    /\ minted' = minted \cup {create_access_token(UsernameOf(req[r].user), now)}
    /\ refresh_tokens' = create_refresh_token(nextRaw, req[r].user, now)
    /\ nextRaw' = nextRaw + 1
    /\ req' = [req EXCEPT ![r] = IdleReq]
    /\ resp' = Response("login", 0, "ok")
    /\ sweeps' = 0
    /\ UNCHANGED <<now, users, denylist, rotated, registered, cap, horizon, scheduler, session>>

(* ----------------------------- POST /refresh ---------------------------- *)
\* refresh going on whenever a row matches the token, whatever validation says
refresh_validate_unchecked(r) ==
    /\ Free(r)
    /\ \E raw \in Presentable :
         IF RowsOf(raw) = {}
         THEN /\ resp' = Response("refresh", raw, "NotFound")
              /\ req' = req
         ELSE /\ TokensLeft
              /\ resp' = NoResponse
              /\ req' = [req EXCEPT ![r] =
                     [IdleReq EXCEPT !.op = "refresh", !.pc = "issue",
                                     !.tok = raw, !.user = OwnerOf(raw)]]
    /\ UNCHANGED <<now, users, refresh_tokens, denylist, minted, nextRaw,
                   rotated, registered, sweeps, cap, horizon,
                   scheduler, session>>

\* refresh revoking the presented token when validation refuses it
refresh_validate_revoking(r) ==
    /\ Free(r)
    /\ \E raw \in Presentable :
         LET v == validate_refresh_token(raw, now)
         IN  IF v # "Ok"
             THEN /\ resp' = Response("refresh", raw, v)
                  /\ req' = req
                  /\ refresh_tokens' = revoke_refresh_token(raw, now)
             ELSE /\ TokensLeft
                  /\ resp' = NoResponse
                  /\ req' = [req EXCEPT ![r] =
                         [IdleReq EXCEPT !.op = "refresh", !.pc = "issue",
                                         !.tok = raw, !.user = OwnerOf(raw)]]
                  /\ refresh_tokens' = refresh_tokens
    /\ UNCHANGED <<now, users, denylist, minted, nextRaw, rotated, registered,
                   sweeps, cap, horizon, scheduler, session>>

\* user = await auth_service.validate_refresh_token(refresh_token.refresh_token)
refresh_validate(r) ==
    /\ Free(r)
    /\ \E raw \in Presentable :
         LET v == validate_refresh_token(raw, now)
         IN  IF v # "Ok"
             THEN /\ resp' = Response("refresh", raw, v)
                  /\ req' = req
             ELSE /\ TokensLeft
                  /\ resp' = NoResponse
                  /\ req' = [req EXCEPT ![r] =
                         [IdleReq EXCEPT !.op = "refresh", !.pc = "issue",
                                         !.tok = raw, !.user = OwnerOf(raw)]]
    /\ UNCHANGED <<now, users, refresh_tokens, denylist, minted, nextRaw,
                   rotated, registered, sweeps, cap, horizon,
                   scheduler, session>>

\* new_access_token = create_access_token(user.username);
\* new_refresh_token = await create_refresh_token(user.id, ...)
refresh_issue(r) ==
    /\ req[r].op = "refresh" /\ req[r].pc = "issue"
    /\ LET acc == create_access_token(UsernameOf(req[r].user), now)
       IN  /\ minted' = minted \cup {acc}
           /\ req' = [req EXCEPT ![r] = [@ EXCEPT !.pc = "revoke",
                                            !.new = nextRaw, !.newacc = acc]]
    /\ refresh_tokens' = create_refresh_token(nextRaw, req[r].user, now)
    /\ nextRaw' = nextRaw + 1
    /\ sweeps' = 0
    /\ resp' = NoResponse
    /\ UNCHANGED <<now, users, denylist, rotated, registered, cap, horizon, scheduler, session>>

\* refresh without its revoke call: the presented token is left as it is
refresh_revoke_skipped(r) ==
    /\ req[r].op = "refresh" /\ req[r].pc = "revoke"
    /\ refresh_tokens' = refresh_tokens
    /\ req' = [req EXCEPT ![r] = IdleReq]
    /\ resp' = Response("refresh", req[r].tok, "ok")
    /\ rotated' = rotated \cup {req[r].tok}
    /\ sweeps' = sweeps
    /\ UNCHANGED <<now, users, denylist, minted, nextRaw, registered, cap, horizon,
                   scheduler, session>>

\* refresh revoking new_refresh_token instead of the presented token
refresh_revoke_new(r) ==
    /\ req[r].op = "refresh" /\ req[r].pc = "revoke"
    /\ refresh_tokens' = revoke_refresh_token(req[r].new, now)
    /\ req' = [req EXCEPT ![r] = IdleReq]
    /\ resp' = Response("refresh", req[r].tok, "ok")
    /\ rotated' = rotated \cup {req[r].tok}
    /\ sweeps' = SweepsAfter(refresh_tokens')
    /\ UNCHANGED <<now, users, denylist, minted, nextRaw, registered, cap, horizon,
                   scheduler, session>>

\* refresh with a revoke that stamps revoked_at anew on a row revoked before
refresh_revoke_stamping(r) ==
    /\ req[r].op = "refresh" /\ req[r].pc = "revoke"
    /\ refresh_tokens' =
          {IF x.token_hash = token_hash_of(req[r].tok)
              THEN [x EXCEPT !.revoked_at = now] ELSE x : x \in refresh_tokens}
    /\ req' = [req EXCEPT ![r] = IdleReq]
    /\ resp' = Response("refresh", req[r].tok, "ok")
    /\ rotated' = rotated \cup {req[r].tok}
    /\ sweeps' = SweepsAfter(refresh_tokens')
    /\ UNCHANGED <<now, users, denylist, minted, nextRaw, registered, cap, horizon,
                   scheduler, session>>

\* refresh with a revoke that raises when the presented token has no row
refresh_revoke_strict(r) ==
    /\ req[r].op = "refresh" /\ req[r].pc = "revoke"
    /\ refresh_tokens' = revoke_refresh_token(req[r].tok, now)
    /\ req' = [req EXCEPT ![r] = IdleReq]
    /\ IF RowsOf(req[r].tok) = {}
       THEN /\ resp' = Response("refresh", req[r].tok, "NotFound")
            /\ rotated' = rotated
       ELSE /\ resp' = Response("refresh", req[r].tok, "ok")
            /\ rotated' = rotated \cup {req[r].tok}
    /\ sweeps' = SweepsAfter(refresh_tokens')
    /\ UNCHANGED <<now, users, denylist, minted, nextRaw, registered, cap, horizon,
                   scheduler, session>>

\* await auth_service.revoke_refresh_token(refresh_token.refresh_token);
\* return TokenResponse(...)
refresh_revoke(r) ==
    /\ req[r].op = "refresh" /\ req[r].pc = "revoke"
    /\ refresh_tokens' = revoke_refresh_token(req[r].tok, now)
    /\ req' = [req EXCEPT ![r] = IdleReq]
    /\ resp' = Response("refresh", req[r].tok, "ok")
    /\ rotated' = rotated \cup {req[r].tok}
    /\ sweeps' = SweepsAfter(refresh_tokens')
    /\ UNCHANGED <<now, users, denylist, minted, nextRaw, registered, cap, horizon,
                   scheduler, session>>

(* ----------------------------- POST /logout ----------------------------- *)
\* logout without its revoke_access_token call
logout_revoke_access_skipped(r) ==
    /\ Free(r)
    /\ \E acc \in PresentableAccess, raw \in Presentable :
         /\ verify_access(acc, now) = "Ok"
         /\ req' = [req EXCEPT ![r] =
                [IdleReq EXCEPT !.op = "logout", !.pc = "revoke",
                                !.acc = acc, !.tok = raw]]
    /\ resp' = NoResponse
    /\ UNCHANGED <<now, users, refresh_tokens, denylist, minted, nextRaw, rotated, registered, sweeps, cap, horizon,
                   scheduler, session>>

\* await auth_service.revoke_access_token(token): 401 when the access token
\* does not verify, else the token is put on the denylist
logout_revoke_access(r) ==
    /\ Free(r)
    /\ \E acc \in PresentableAccess, raw \in Presentable :
         IF verify_access(acc, now) # "Ok"
         THEN /\ resp' = Response("logout", 0, "Unauthorized")
              /\ req' = req
              /\ denylist' = denylist
         ELSE /\ resp' = NoResponse
              /\ req' = [req EXCEPT ![r] =
                     [IdleReq EXCEPT !.op = "logout", !.pc = "revoke",
                                     !.acc = acc, !.tok = raw]]
              /\ denylist' = revoke_access_token(acc)
    /\ UNCHANGED <<now, users, refresh_tokens, minted, nextRaw,
                   rotated, registered, sweeps, cap, horizon,
                   scheduler, session>>

\* await auth_service.revoke_refresh_token(refresh_token.refresh_token);
\* return None
logout_revoke_refresh(r) ==
    /\ req[r].op = "logout" /\ req[r].pc = "revoke"
    /\ refresh_tokens' = revoke_refresh_token(req[r].tok, now)
    /\ req' = [req EXCEPT ![r] = IdleReq]
    /\ resp' = Response("logout", 0, "ok")
    /\ sweeps' = SweepsAfter(refresh_tokens')
    /\ UNCHANGED <<now, users, denylist, minted, nextRaw, rotated, registered, cap, horizon,
                   scheduler, session>>

(* ------------------------------ GET /users/me --------------------------- *)
\* return await auth_service.get_current_user(token)
me(r) ==
    /\ Free(r)
    /\ \E acc \in PresentableAccess :
         resp' = Response("me", 0, get_current_user(acc, now))
    /\ UNCHANGED <<now, users, refresh_tokens, denylist, minted, nextRaw, req,
                   rotated, registered, sweeps, cap, horizon,
                   scheduler, session>>

(* ----------------------------- Expiry Sweeper --------------------------- *)
\* SQL comparison and connectives: a comparison with NULL is unknown, and a
\* row is deleted only when the WHERE clause is true
sql_lt(a, b) ==
    IF a = NULL \/ b = NULL THEN "unknown" ELSE IF a < b THEN "true" ELSE "false"

sql_is_not_null(a) == IF a = NULL THEN "false" ELSE "true"

sql_and(p, q) ==
    IF p = "false" \/ q = "false" THEN "false"
    ELSE IF p = "true" /\ q = "true" THEN "true" ELSE "unknown"

sql_or(p, q) ==
    IF p = "true" \/ q = "true" THEN "true"
    ELSE IF p = "false" /\ q = "false" THEN "false" ELSE "unknown"

\* the WHERE clause read as (A OR B) AND C
cleanup_where_or_first(x, t, cutoff) ==
    sql_and(sql_or(sql_lt(x.expired_at, t), sql_is_not_null(x.revoked_at)),
            sql_lt(x.revoked_at, cutoff))

\* the WHERE clause with expired_at <= :now
cleanup_where_le(x, t, cutoff) ==
    sql_or(sql_lt(x.expired_at, t + 1),
           sql_and(sql_is_not_null(x.revoked_at), sql_lt(x.revoked_at, cutoff)))

\* the WHERE clause with expired_at compared to a time one token lifetime
\* ahead of :now
cleanup_where_early(x, t, cutoff) ==
    sql_or(sql_lt(x.expired_at, t + RefreshTTL),
           sql_and(sql_is_not_null(x.revoked_at), sql_lt(x.revoked_at, cutoff)))

\* the WHERE clause without its first disjunct: expiry alone selects no row
cleanup_where_revoked_only(x, t, cutoff) ==
    sql_and(sql_is_not_null(x.revoked_at), sql_lt(x.revoked_at, cutoff))

\* WHERE expired_at < :now OR revoked_at IS NOT NULL AND revoked_at < :cutoff
\* (AND binds tighter than OR)
cleanup_where(x, t, cutoff) ==
    sql_or(sql_lt(x.expired_at, t),
           sql_and(sql_is_not_null(x.revoked_at), sql_lt(x.revoked_at, cutoff)))

\* a DELETE that removes one selected row only, the one of the lowest id
cleanup_delete_one(table, t, cutoff) ==
    LET sel == {x \in table : cleanup_where(x, t, cutoff) = "true"}
    IN  IF sel = {} THEN table
        ELSE table \ {CHOOSE x \in sel : \A y \in sel : x.id <= y.id}

\* an UPDATE in place of the DELETE: the selected rows are kept and their
\* revoked_at is cleared
cleanup_delete_renew(table, t, cutoff) ==
    {IF cleanup_where(x, t, cutoff) = "true"
        THEN [x EXCEPT !.revoked_at = NULL] ELSE x : x \in table}

\* the DELETE statement: the table without the rows the WHERE clause selects
cleanup_delete(table, t, cutoff) ==
    {x \in table : cleanup_where(x, t, cutoff) # "true"}

\* a session manager that commits on the way out what the session has written
session_exit_commits(written, exc) ==
    [kept |-> written,
     logged |-> exc \in {"SQLAlchemyError", "Exception"},
     rollback |-> FALSE,
     closed |-> TRUE,
     raised |-> exc]

\* DatabaseSessionManager.session: leaving the context manager with the
\* exception exc raised inside it ("none": left normally).  SQLAlchemyError
\* and any other Exception are logged, the session is rolled back and the
\* exception is raised again; a BaseException such as CancelledError passes
\* the except clauses.  The session is closed in every case, which discards
\* what it has not committed: of the rows written, none is kept.
session_exit(written, exc) ==
    [kept |-> {},
     logged |-> exc \in {"SQLAlchemyError", "Exception"},
     rollback |-> exc \in {"SQLAlchemyError", "Exception"},
     closed |-> TRUE,
     raised |-> exc]

\* an executor that lets the job's exception through: the event loop stops
\* and with it the scheduler
run_job_uncaught(sched, raised) ==
    IF raised = "none" THEN [sched EXCEPT !.last = "ok"]
    ELSE [sched EXCEPT !.last = "error", !.errors = @ + 1,
                       !.host = "down", !.jobs = {}]

\* AsyncIOScheduler running the interval job: an exception raised by the job
\* is caught and logged by the executor; the job stays in the job store and
\* is due again after the next interval
run_job(sched, raised) ==
    IF raised = "none" THEN [sched EXCEPT !.last = "ok"]
    ELSE [sched EXCEPT !.last = "error", !.errors = @ + 1]

\* the scheduler fires the job while the host is up and the job is registered
JobDue ==
    scheduler.host = "up" /\ "cleanup_expired_tokens" \in scheduler.jobs

\* async def cleanup_expired_tokens(): one run of the hourly job.  sweeps
\* counts the runs made in a row, with no write to the table and no clock step
\* in between (2 stands for two or more).
cleanup_expired_tokens ==
    /\ JobDue
    /\ LET cutoff == now - RetentionDays
       IN  refresh_tokens' = cleanup_delete(refresh_tokens, now, cutoff)
    /\ sweeps' = IF sweeps = 0 THEN 1 ELSE 2
    /\ resp' = NoResponse
    /\ scheduler' = run_job(scheduler, "none")
    /\ UNCHANGED <<now, users, denylist, minted, nextRaw, req,
                   rotated, registered, cap, horizon, session>>

\* a run in which db.execute or db.commit raises SQLAlchemyError: the
\* session manager rolls back, so no row is deleted, and raises again; the
\* exception leaves cleanup_expired_tokens and reaches the executor
cleanup_expired_tokens_raises ==
    /\ JobDue
    /\ scheduler.errors < MaxFailures
    /\ \E at \in {"execute", "commit"} :
         LET cutoff == now - RetentionDays
             written == IF at = "commit"
                        THEN refresh_tokens
                                 \ cleanup_delete(refresh_tokens, now, cutoff)
                        ELSE {}
             exit == session_exit(written, "SQLAlchemyError")
         IN  /\ refresh_tokens' = refresh_tokens \ exit.kept
             /\ scheduler' = run_job(scheduler, exit.raised)
    /\ resp' = NoResponse
    /\ UNCHANGED <<now, users, denylist, minted, nextRaw, req, sweeps,
                   rotated, registered, cap, horizon, session>>

(* --------------------------- token lifecycle ---------------------------- *)
\* two users registered before the first request
InitUsers ==
    {User(1, <<"a">>, <<"a", "@">>, hash_password("p", 1)),
     User(2, <<"b">>, <<"b", "@">>, hash_password("q", 2))}

Init ==
    /\ now = 0
    /\ users = InitUsers
    /\ refresh_tokens = {}
    /\ denylist = {}
    /\ minted = {}
    /\ nextRaw = 1
    /\ req = [r \in Slots |-> IdleReq]
    /\ resp = NoResponse
    /\ rotated = {}
    /\ registered = {}
    /\ sweeps = 0
    /\ cap = MaxTokens
    /\ horizon = MaxTime
    /\ scheduler = SchedulerStarted
    /\ session = [r \in Slots |-> {}]

\* login, rotation, expiry and the cleanup job
Next ==
    \/ Tick
    \/ cleanup_expired_tokens
    \/ \E r \in Slots :
         \/ login_authenticate(r)
         \/ login_issue(r)
         \/ refresh_validate(r)
         \/ refresh_issue(r)
         \/ refresh_revoke(r)

Spec == Init /\ [][Next]_vars

(* ------------------------- properties: rotation ------------------------ *)
\* slot r passes validation and goes on to issue a new pair
RefreshProceeds(r) == req[r].pc = "idle" /\ req'[r].op = "refresh"

\* slot r makes its revoke call and returns the new pair
RefreshReturns(r) ==
    req[r].op = "refresh" /\ req[r].pc = "revoke" /\ req'[r].pc = "idle"

\* a refresh request is refused at validation: nothing but the response changes
RefreshRefused ==
    /\ req' = req /\ refresh_tokens' = refresh_tokens
    /\ resp' # resp /\ resp'.op = "refresh"

\* the raw token a stored row belongs to
RawOf(x) == x.token_hash[2]

RowOf(raw) == CHOOSE x \in RowsOf(raw) : TRUE

\* rows ever stored: one per raw token generated
Issued == nextRaw - 1

\* C1 as stated: a refresh token that a successful refresh has rotated fails
\* validate with Revoked in every later state, whatever the clock and the
\* cleanup job have done since.
C1_RotatedAlwaysRevoked ==
    \A raw \in rotated : validate_refresh_token(raw, now) = "Revoked"

C1_RotatedInvalid ==
    \A raw \in rotated :
        /\ validate_refresh_token(raw, now) \in {"Revoked", "Expired", "NotFound"}
        /\ RowsOf(raw) # {} => RowOf(raw).revoked_at # NULL
        /\ (RowsOf(raw) # {} /\ now < RowOf(raw).expired_at)
              => validate_refresh_token(raw, now) = "Revoked"

C1_RotatedRefused ==
    /\ \A r \in Slots : RefreshProceeds(r) => req'[r].tok \notin rotated
    /\ (RefreshRefused /\ resp'.tok \in rotated)
          => resp'.res \in {"Revoked", "Expired", "NotFound"}

\* C1 amended: a refresh token that a successful refresh has rotated never
\* validates again and every later refresh presenting it is refused; the
\* failure is Revoked while its row is stored and unexpired, Expired once
\* now >= expired_at, NotFound once the cleanup job has deleted the row.
C1_RotatedNeverValidAgain == [](C1_RotatedInvalid) /\ [][C1_RotatedRefused]_vars

\* C1 witness: a rotated token whose row the cleanup job has deleted
C1_Witness ==
    \E raw \in rotated : validate_refresh_token(raw, now) = "NotFound"

(* ------------------------- concurrent refreshes ------------------------- *)
\* requests racing at one instant: the clock stands still and the cleanup
\* job does not run
RaceInit ==
    /\ now = 0
    /\ users = InitUsers
    /\ refresh_tokens = {}
    /\ denylist = {}
    /\ minted = {}
    /\ nextRaw = 1
    /\ req = [r \in Slots |-> IdleReq]
    /\ resp = NoResponse
    /\ rotated = {}
    /\ registered = {}
    /\ sweeps = 0
    /\ cap = MaxRaceTokens
    /\ horizon = 0
    /\ scheduler = SchedulerStarted
    /\ session = [r \in Slots |-> {}]

\* login and rotation
RaceNext ==
    \E r \in Slots :
        \/ login_authenticate(r)
        \/ login_issue(r)
        \/ refresh_validate(r)
        \/ refresh_issue(r)
        \/ refresh_revoke(r)

RaceSpec == RaceInit /\ [][RaceNext]_vars

\* C2 as stated: of the refresh requests presenting one token at most one
\* returns a new pair: none returns for a token another refresh has rotated.
C2_AtMostOneRefreshSucceeds ==
    [][\A r \in Slots : RefreshReturns(r) => req[r].tok \notin rotated]_vars

\* C3: when refresh returns, the presented token does not validate, the new
\* token validates, and the new token's row belongs to the user that owned
\* the presented one.
C3_RefreshPostcondition ==
    [][\A r \in Slots : RefreshReturns(r) =>
          \A old \in {req[r].tok}, new \in {req[r].new}, owner \in {req[r].user} :
              /\ validate_refresh_token(old, now)' # "Ok"
              /\ validate_refresh_token(new, now)' = "Ok"
              /\ OwnerOf(new)' = owner
              /\ RowsOf(old) # {} => OwnerOf(old) = owner]_vars

\* C3 witness: refresh has just returned a pair for a token a user held
C3_Witness ==
    /\ resp.op = "refresh" /\ resp.res = "ok"
    /\ RowsOf(resp.tok) # {} /\ RowOf(resp.tok).revoked_at # NULL
    /\ \E x \in refresh_tokens :
         /\ RawOf(x) > resp.tok /\ x.user_id = OwnerOf(resp.tok)
         /\ validate_refresh_token(RawOf(x), now) = "Ok"

C4_ExpiredFailsValidate ==
    \A x \in refresh_tokens :
        (x.revoked_at = NULL /\ now >= x.expired_at)
            => validate_refresh_token(RawOf(x), now) = "Expired"

C4_ExpiredRefused ==
    /\ \A r \in Slots : RefreshProceeds(r) =>
          \A x \in RowsOf(req'[r].tok) : now < x.expired_at
    /\ RefreshRefused =>
          \A x \in RowsOf(resp'.tok) :
              (x.revoked_at = NULL /\ now >= x.expired_at)
                  => resp'.res = "Expired"

\* C4: a stored refresh token that was never revoked fails validate with
\* Expired from now >= expired_at on, and a refresh presenting it is refused
\* with Expired.
C4_ExpiredRejected == [](C4_ExpiredFailsValidate) /\ [][C4_ExpiredRefused]_vars

\* C4 witness: a refresh was refused as Expired for a stored, unrevoked row
C4_Witness ==
    /\ resp.op = "refresh" /\ resp.res = "Expired"
    /\ RowsOf(resp.tok) # {} /\ RowOf(resp.tok).revoked_at = NULL
    /\ now >= RowOf(resp.tok).expired_at

(* ------------------------- properties: cleanup job ---------------------- *)
\* one run of the cleanup job that does not raise: the only step that counts
\* sweeps up
CleanupRan ==
    /\ sweeps' = (IF sweeps = 0 THEN 1 ELSE 2)
    /\ req' = req /\ resp' = NoResponse /\ now' = now /\ nextRaw' = nextRaw
    /\ scheduler'.errors = scheduler.errors

\* the two deletion conditions of spec 4.3, for a run at time t
PastExpiry(x, t) == x.expired_at < t

RevokedLongAgo(x, t) ==
    x.revoked_at # NULL /\ x.revoked_at < t - RetentionDays

\* C8: a run at time now deletes exactly the rows with expired_at < now or
\* with revoked_at set and revoked_at < now - retention, and changes no other
\* row.
C8_PurgeDeletesExactly ==
    [][CleanupRan =>
          refresh_tokens' =
              {x \in refresh_tokens :
                   ~(PastExpiry(x, now) \/ RevokedLongAgo(x, now))}]_vars

\* C8 witness: after a run, rows have been deleted and a row has been kept
C8_Witness ==
    /\ sweeps >= 1
    /\ refresh_tokens # {}
    /\ Cardinality(refresh_tokens) < Issued

\* C9 as stated: a row is deleted only once expired_at < now - retention or
\* once revoked for longer than the retention window, so a never-revoked
\* token that expired less than a retention window ago survives a run.
C9_DeletedOnlyAfterRetention ==
    [][CleanupRan =>
          \A x \in refresh_tokens \ refresh_tokens' :
              \/ x.expired_at < now - RetentionDays
              \/ RevokedLongAgo(x, now)]_vars

\* C9 amended: a row is deleted only once expired_at < now or once revoked
\* for longer than the retention window; a never-revoked token that has not
\* passed its expiry (expired_at >= now) is still present after a run.
C9_DeletedOnlyIfStale ==
    [][CleanupRan =>
          /\ \A x \in refresh_tokens \ refresh_tokens' :
                 PastExpiry(x, now) \/ RevokedLongAgo(x, now)
          /\ \A x \in refresh_tokens :
                 (x.revoked_at = NULL /\ x.expired_at >= now)
                     => x \in refresh_tokens']_vars

\* C9 witness: after a run that deleted rows, a never-revoked token at its
\* expiry instant is still stored
C9_Witness ==
    /\ sweeps >= 1
    /\ Cardinality(refresh_tokens) < Issued
    /\ \E x \in refresh_tokens : x.revoked_at = NULL /\ x.expired_at = now

SessionUsers == {User(1, <<"a">>, <<"a", "@">>, hash_password("p", 1))}

SessionInit ==
    /\ now = 0
    /\ users = SessionUsers
    /\ refresh_tokens = {}
    /\ denylist = {}
    /\ minted = {}
    /\ nextRaw = 1
    /\ req = [r \in Slots |-> IdleReq]
    /\ resp = NoResponse
    /\ rotated = {}
    /\ registered = {}
    /\ sweeps = 0
    /\ cap = MaxSessionTokens
    /\ horizon = RefreshTTL
    /\ scheduler = SchedulerStarted
    /\ session = [r \in Slots |-> {}]

\* login, rotation, logout and /users/me
SessionNext ==
    \/ Tick
    \/ \E r \in Slots :
         \/ login_authenticate(r)
         \/ login_issue(r)
         \/ refresh_validate(r)
         \/ refresh_issue(r)
         \/ refresh_revoke(r)
         \/ logout_revoke_access(r)
         \/ logout_revoke_refresh(r)
         \/ me(r)

SessionSpec == SessionInit /\ [][SessionNext]_vars

(* ------------------------- properties: sessions ------------------------- *)
\* slot r makes logout's second call and returns 204
LogoutReturns(r) ==
    req[r].op = "logout" /\ req[r].pc = "revoke" /\ req'[r].pc = "idle"

\* C5: when logout returns, get_current_user refuses the access token and
\* the refresh token does not validate; and from then on neither does again:
\* a denylisted access token stays refused (also once the denylist has dropped
\* it at its expiry), and an issued refresh token that fails validate keeps
\* failing it.
C5_LogoutInvalidatesBoth ==
    [][/\ \A r \in Slots : LogoutReturns(r) =>
             \A acc \in {req[r].acc}, raw \in {req[r].tok} :
                 /\ get_current_user(acc, now)' = "Unauthorized"
                 /\ validate_refresh_token(raw, now)' # "Ok"
       /\ \A acc \in denylist : get_current_user(acc, now)' = "Unauthorized"
       /\ \A raw \in 0..Issued :
             validate_refresh_token(raw, now) # "Ok"
                 => validate_refresh_token(raw, now)' # "Ok"]_vars

\* C5 witness: logout has returned; the access token it denylisted still
\* verifies (signed, not expired) and is refused, and a refresh token of the
\* user is revoked before its expiry
C5_Witness ==
    /\ resp.op = "logout" /\ resp.res = "ok"
    /\ \E acc \in denylist :
         verify_access(acc, now) = "Ok" /\ get_current_user(acc, now) = "Unauthorized"
    /\ \E x \in refresh_tokens : x.revoked_at # NULL /\ now < x.expired_at

(* ----------------------------- POST /register --------------------------- *)
Taken(name, email) == \E u \in users : u.username = name \/ u.email = email

\* user_data: UserCreate is validated (username stripped, email stripped and
\* lower-cased), then user = await auth_service.register_user(user_data):
\* Conflict when the username or the email exists already (spec 4.4)
register_check(r) ==
    /\ Free(r)
    /\ \E typed \in RawUsernames, mail \in RawEmails, pw \in Passwords :
         LET name == username_strip(typed)
             email == email_lower(mail)
         IN  IF Taken(name, email)
             THEN /\ resp' = RegisterResponse(name, email, "Conflict")
                  /\ req' = req
             ELSE /\ resp' = NoResponse
                  /\ req' = [req EXCEPT ![r] =
                         [IdleReq EXCEPT !.op = "register", !.pc = "insert",
                                         !.typed = typed, !.name = name,
                                         !.email = email, !.pw = pw]]
    /\ UNCHANGED <<now, users, refresh_tokens, denylist, minted, nextRaw,
                   rotated, registered, sweeps, cap, horizon,
                   scheduler, session>>

\* register_user goes on: the password is hashed with a new salt and the row
\* is inserted.  An INSERT the unique constraints reject adds nothing; what
\* the request then answers is not fixed by the sources at hand (409 if the
\* service maps the error, else the 500 of the session manager's
\* SQLAlchemyError path).
register_insert(r) ==
    /\ req[r].op = "register" /\ req[r].pc = "insert"
    /\ \E salt \in Salts :
         LET row == User(Cardinality(users) + 1, req[r].name, req[r].email,
                         hash_password(req[r].pw, salt))
         IN  IF users_unique_violation(row)
             THEN /\ users' = users
                  /\ registered' = registered
                  /\ \E res \in {"Conflict", "ServerError"} :
                       resp' = RegisterResponse(req[r].name, req[r].email, res)
             ELSE /\ users' = users \cup {row}
                  /\ registered' = registered \cup {<<req[r].typed, req[r].pw>>}
                  /\ resp' = RegisterResponse(req[r].name, req[r].email, "Created")
    /\ req' = [req EXCEPT ![r] = IdleReq]
    /\ UNCHANGED <<now, refresh_tokens, denylist, minted, nextRaw,
                   rotated, sweeps, cap, horizon, scheduler, session>>

(* ----------------------------- registration ----------------------------- *)
\* an empty users table; one login may go through, the clock stands still
RegInit ==
    /\ now = 0
    /\ users = {}
    /\ refresh_tokens = {}
    /\ denylist = {}
    /\ minted = {}
    /\ nextRaw = 1
    /\ req = [r \in Slots |-> IdleReq]
    /\ resp = NoResponse
    /\ rotated = {}
    /\ registered = {}
    /\ sweeps = 0
    /\ cap = 1
    /\ horizon = 0
    /\ scheduler = SchedulerStarted
    /\ session = [r \in Slots |-> {}]

\* registration and login
RegNext ==
    \E r \in Slots :
        \/ register_check(r)
        \/ register_insert(r)
        \/ login_authenticate(r)
        \/ login_issue(r)

RegSpec == RegInit /\ [][RegNext]_vars

(* ----------------------- properties: registration ----------------------- *)
\* slot r passes the existence check and goes on to insert
RegisterProceeds(r) == req[r].pc = "idle" /\ req'[r].op = "register"

\* slot r makes its INSERT and answers
RegisterInserts(r) ==
    req[r].op = "register" /\ req[r].pc = "insert" /\ req'[r].pc = "idle"

\* a register request is answered at the existence check
RegisterRefused == req' = req /\ resp' # resp /\ resp'.op = "register"

C6_NoDuplicateUsers ==
    \A u, v \in users :
        u # v => (u.username # v.username /\ u.email # v.email /\ u.id # v.id)

C6_TakenIsConflict ==
    /\ RegisterRefused =>
          /\ users' = users
          /\ Taken(resp'.name, resp'.email) /\ resp'.res = "Conflict"
    /\ \A r \in Slots : RegisterProceeds(r) =>
          /\ users' = users
          /\ ~Taken(req'[r].name, req'[r].email)
    /\ \A r \in Slots : RegisterInserts(r) =>
          IF Taken(req[r].name, req[r].email)
          THEN users' = users /\ resp'.res # "Created"
          ELSE /\ Cardinality(users') = Cardinality(users) + 1
               /\ users \subseteq users'
               /\ resp'.res = "Created"

RevokeReturns(r) == req[r].pc = "revoke" /\ req'[r].pc = "idle"

\* C11: a revoke_refresh_token call raises no error; on a token whose row is
\* revoked already, or that has no row, it changes nothing, so revoked_at
\* keeps the value the first revoke set; on an unrevoked row it sets
\* revoked_at to now and changes nothing else.
C11_RevokeIdempotent ==
    [][\A r \in Slots : RevokeReturns(r) =>
          /\ resp'.res = "ok"
          /\ IF RowsOf(req[r].tok) = {} \/ RowOf(req[r].tok).revoked_at # NULL
             THEN refresh_tokens' = refresh_tokens
             ELSE refresh_tokens' =
                      (refresh_tokens \ {RowOf(req[r].tok)})
                          \cup {[RowOf(req[r].tok) EXCEPT !.revoked_at = now]}]_vars

\* C11 witness: refresh has returned after its revoke call met a row that
\* had been revoked at an earlier time, and the earlier time is still stored
C11_Witness ==
    /\ resp.op = "refresh" /\ resp.res = "ok"
    /\ RowsOf(resp.tok) # {}
    /\ RowOf(resp.tok).revoked_at # NULL /\ RowOf(resp.tok).revoked_at < now

(* ------------------------- properties: lifecycle ------------------------ *)
\* the row of id i is stored before the step and not after it
RowDeleted(x) == \A y \in refresh_tokens' : y.id # x.id

\* one step changes a stored row in no way but these: it stays as it is, it
\* gets revoked_at set to now (if it had none), or the cleanup job deletes it
C12_RowChanges ==
    \A x \in refresh_tokens :
        \/ x \in refresh_tokens'
        \/ x.revoked_at = NULL /\ [x EXCEPT !.revoked_at = now] \in refresh_tokens'
        \/ RowDeleted(x) /\ CleanupRan

\* an issued token that does not validate does not validate after the step
C12_StaysInvalid ==
    \A raw \in 1..Issued :
        validate_refresh_token(raw, now) # "Ok"
            => validate_refresh_token(raw, now)' # "Ok"

\* C12: Revoked and Expired are absorbing: a stored row changes only by
\* getting revoked_at set, once, or by the cleanup job's delete; revoked_at
\* is never cleared and expired_at never moves, so a token that has failed
\* validate as Revoked or Expired, or whose row is gone, never validates
\* again.
C12_LifecycleAbsorbing == [][C12_RowChanges /\ C12_StaysInvalid]_vars

\* C12 witness: a rotated token whose row is stored, revoked and past its
\* expiry
C12_Witness ==
    \E raw \in rotated :
        /\ RowsOf(raw) # {}
        /\ RowOf(raw).revoked_at # NULL
        /\ now >= RowOf(raw).expired_at

(* ------------------------------- routing -------------------------------- *)
\* status.HTTP_201_CREATED
HTTP_201_CREATED == 201
\* the status of a route declared without status_code
HTTP_200_OK == 200
\* the status of the HTTPException a failed validate_refresh_token raises
\* (spec 5)
HTTP_401_UNAUTHORIZED == 401

\* the decorators on refresh, top to bottom as written: both declare the
\* path /refresh, the upper with status_code=201, the lower with none
refresh_decorators ==
    <<[path |-> "/refresh", status_code |-> HTTP_201_CREATED],
      [path |-> "/refresh", status_code |-> HTTP_200_OK]>>

\* decorators are applied bottom-up, and each application appends its route
\* to router.routes
router_routes(decorators) ==
    [i \in 1..Len(decorators) |-> decorators[Len(decorators) + 1 - i]]

\* the router serves a request with the first route that matches
match_route(routes, path) ==
    routes[CHOOSE i \in 1..Len(routes) :
               /\ routes[i].path = path
               /\ \A j \in 1..(i - 1) : routes[j].path # path]

\* the HTTP status of a response of POST /auth/refresh
refresh_status(response) ==
    IF response.res = "ok"
    THEN match_route(router_routes(refresh_decorators), "/refresh").status_code
    ELSE HTTP_401_UNAUTHORIZED

\* C13 as stated: a refresh that succeeds answers 201, a refresh presenting
\* an unknown, expired or revoked token answers 401.
C13_RefreshStatus ==
    resp.op = "refresh" =>
        /\ resp.res = "ok" => refresh_status(resp) = 201
        /\ resp.res \in {"NotFound", "Expired", "Revoked"}
               => refresh_status(resp) = 401

(* ------------------ properties: cleanup job and requests ---------------- *)
\* a run of the cleanup job changes what validate says of a token only by
\* making it NotFound, and touches no request
C14_CleanupOnlyRemoves ==
    CleanupRan =>
        /\ refresh_tokens' \subseteq refresh_tokens
        /\ \A raw \in 0..Issued :
              \/ validate_refresh_token(raw, now)' = validate_refresh_token(raw, now)
              \/ /\ RowsOf(raw) # {} /\ RowsOf(raw)' = {}
                 /\ validate_refresh_token(raw, now)' = "NotFound"

\* a refresh whose presented row is gone when it makes its revoke call still
\* returns its pair: the revoke changes nothing, the presented token is
\* NotFound and the new token validates
C14_RefreshSurvivesDelete ==
    \A r \in Slots : (RefreshReturns(r) /\ RowsOf(req[r].tok) = {}) =>
        \A old \in {req[r].tok}, new \in {req[r].new} :
            /\ resp' = Response("refresh", old, "ok")
            /\ refresh_tokens' = refresh_tokens
            /\ validate_refresh_token(old, now)' = "NotFound"
            /\ validate_refresh_token(new, now)' = "Ok"

\* C14: the cleanup job's delete, interleaved with the steps of requests,
\* adds one outcome only, NotFound for a token whose row it deleted; a
\* refresh whose presented row is deleted between its validate and its revoke
\* step ends with the presented token unusable.
C14_DeleteYieldsNotFound ==
    [][C14_CleanupOnlyRemoves /\ C14_RefreshSurvivesDelete]_vars

\* C14 witness: refresh has returned a pair for a token whose row the cleanup
\* job deleted after the request had validated it
C14_Witness ==
    /\ resp.op = "refresh" /\ resp.res = "ok"
    /\ resp.tok \in 1..Issued
    /\ RowsOf(resp.tok) = {}

(* --------------------------- failing cleanup runs ----------------------- *)
SweepInit ==
    /\ now = 0
    /\ users = InitUsers
    /\ refresh_tokens = {}
    /\ denylist = {}
    /\ minted = {}
    /\ nextRaw = 1
    /\ req = [r \in Slots |-> IdleReq]
    /\ resp = NoResponse
    /\ rotated = {}
    /\ registered = {}
    /\ sweeps = 0
    /\ cap = MaxSweepTokens
    /\ horizon = MaxTime
    /\ scheduler = SchedulerStarted
    /\ session = [r \in Slots |-> {}]

\* the cleanup job, succeeding or raising, next to login and refresh, which
\* the host serves while it is up
SweepNext ==
    \/ Tick
    \/ cleanup_expired_tokens
    \/ cleanup_expired_tokens_raises
    \/ /\ scheduler.host = "up"
       /\ \E r \in Slots :
            \/ login_authenticate(r)
            \/ login_issue(r)
            \/ refresh_validate(r)
            \/ refresh_issue(r)
            \/ refresh_revoke(r)

SweepSpec == SweepInit /\ [][SweepNext]_vars

\* a run of the cleanup job has raised
CleanupRaised == scheduler'.errors = scheduler.errors + 1

C15_FailedRunContained ==
    CleanupRaised =>
        /\ scheduler'.jobs = scheduler.jobs
        /\ scheduler'.host = "up"
        /\ refresh_tokens' = refresh_tokens
        /\ req' = req

C15_StillScheduled ==
    scheduler.errors > 0 =>
        /\ scheduler.host = "up"
        /\ "cleanup_expired_tokens" \in scheduler.jobs
        /\ ENABLED cleanup_expired_tokens

commit_rows(table, written) ==
    {x \in table : \A w \in written : w.id # x.id} \cup written

\* create_refresh_token, the INSERT: the new row is written in the session
refresh_issue_execute(r) ==
    /\ req[r].op = "refresh" /\ req[r].pc = "issue"
    /\ LET acc == create_access_token(UsernameOf(req[r].user), now)
           row == RefreshToken(nextRaw, req[r].user, token_hash_of(nextRaw),
                               now + RefreshTTL)
       IN  /\ minted' = minted \cup {acc}
           /\ session' = [session EXCEPT ![r] = {row}]
           /\ req' = [req EXCEPT ![r] = [@ EXCEPT !.pc = "issue_commit",
                                            !.new = nextRaw, !.newacc = acc]]
    /\ nextRaw' = nextRaw + 1
    /\ resp' = NoResponse
    /\ UNCHANGED <<now, users, refresh_tokens, denylist, rotated, registered,
                   sweeps, cap, horizon, scheduler>>

\* create_refresh_token, the commit
refresh_issue_commit(r) ==
    /\ req[r].op = "refresh" /\ req[r].pc = "issue_commit"
    /\ refresh_tokens' = commit_rows(refresh_tokens, session[r])
    /\ session' = [session EXCEPT ![r] = {}]
    /\ req' = [req EXCEPT ![r] = [@ EXCEPT !.pc = "revoke"]]
    /\ resp' = NoResponse
    /\ sweeps' = 0
    /\ UNCHANGED <<now, users, denylist, minted, nextRaw, rotated, registered,
                   cap, horizon, scheduler>>

\* revoke_refresh_token, the UPDATE: the revoked row is written in the
\* session
refresh_revoke_execute(r) ==
    /\ req[r].op = "refresh" /\ req[r].pc = "revoke"
    /\ session' = [session EXCEPT ![r] =
           revoke_refresh_token(req[r].tok, now) \ refresh_tokens]
    /\ req' = [req EXCEPT ![r] = [@ EXCEPT !.pc = "revoke_commit"]]
    /\ resp' = NoResponse
    /\ UNCHANGED <<now, users, refresh_tokens, denylist, minted, nextRaw,
                   rotated, registered, sweeps, cap, horizon, scheduler>>

\* revoke_refresh_token, the commit; return TokenResponse(...)
refresh_revoke_commit(r) ==
    /\ req[r].op = "refresh" /\ req[r].pc = "revoke_commit"
    /\ refresh_tokens' = commit_rows(refresh_tokens, session[r])
    /\ session' = [session EXCEPT ![r] = {}]
    /\ req' = [req EXCEPT ![r] = IdleReq]
    /\ resp' = Response("refresh", req[r].tok, "ok")
    /\ rotated' = rotated \cup {req[r].tok}
    /\ sweeps' = SweepsAfter(refresh_tokens')
    /\ UNCHANGED <<now, users, denylist, minted, nextRaw, registered,
                   cap, horizon, scheduler>>

\* get_db: the request raises, or is cancelled because the client has gone,
\* at the await it stands before; the exception passes through
\* sessionmanager.session(), and the request ends
request_abort(r) ==
    /\ InFlight(r)
    /\ \E exc \in {"SQLAlchemyError", "Exception", "CancelledError"} :
         LET exit == session_exit(session[r], exc)
         IN  /\ refresh_tokens' = commit_rows(refresh_tokens, exit.kept)
             /\ resp' = Response(req[r].op, req[r].tok, exit.raised)
    /\ session' = [session EXCEPT ![r] = {}]
    /\ req' = [req EXCEPT ![r] = IdleReq]
    /\ UNCHANGED <<now, users, denylist, minted, nextRaw, rotated, registered,
                   sweeps, cap, horizon, scheduler>>

TxnInit ==
    /\ now = 0
    /\ users = InitUsers
    /\ refresh_tokens = {}
    /\ denylist = {}
    /\ minted = {}
    /\ nextRaw = 1
    /\ req = [r \in Slots |-> IdleReq]
    /\ resp = NoResponse
    /\ rotated = {}
    /\ registered = {}
    /\ sweeps = 0
    /\ cap = MaxTxnTokens
    /\ horizon = 0
    /\ scheduler = SchedulerStarted
    /\ session = [r \in Slots |-> {}]

\* login, and refresh statement by statement, with requests that abort
TxnNext ==
    \E r \in Slots :
        \/ login_authenticate(r)
        \/ login_issue(r)
        \/ refresh_validate(r)
        \/ refresh_issue_execute(r)
        \/ refresh_issue_commit(r)
        \/ refresh_revoke_execute(r)
        \/ refresh_revoke_commit(r)
        \/ request_abort(r)

TxnSpec == TxnInit /\ [][TxnNext]_vars

(* ------------------------ properties: aborted requests ------------------ *)
\* request r ends with an exception
Aborted(r) ==
    /\ InFlight(r) /\ req'[r].pc = "idle"
    /\ resp'.res \in {"SQLAlchemyError", "Exception", "CancelledError"}

\* a session is empty once its request is over, and a row it has inserted
\* and not committed is not stored: validate does not find it
C16_UncommittedNotStored ==
    \A r \in Slots :
        /\ ~InFlight(r) => session[r] = {}
        /\ \A w \in session[r] :
              w.revoked_at = NULL =>
                  validate_refresh_token(RawOf(w), now) = "NotFound"

\* a statement executed in a session changes nothing of what requests read
C16_ExecuteInvisible ==
    \A r \in Slots :
        (session'[r] # session[r] /\ session'[r] # {})
            => refresh_tokens' = refresh_tokens

C16_AbortRollsBack ==
    \A r \in Slots : Aborted(r) =>
        /\ refresh_tokens' = refresh_tokens
        /\ session'[r] = {}
        /\ \A q \in Slots \ {r} : req'[q] = req[q] /\ session'[q] = session[q]

\* C16: a request that raises or is cancelled at any await leaves the table
\* as it is: what its session has written and not committed is discarded and
\* the session ends empty; uncommitted rows are at no time in the table other
\* requests read.  What the request has committed before stays.
C16_AbortLeavesCommitted ==
    /\ [](C16_UncommittedNotStored)
    /\ [][C16_ExecuteInvisible /\ C16_AbortRollsBack]_vars

\* C16 witness: a refresh was cancelled after its INSERT and before the
\* commit: the token number is used up and no row is stored for it
C16_Witness ==
    /\ resp.op = "refresh" /\ resp.res = "CancelledError"
    /\ Cardinality(refresh_tokens) < Issued
    /\ \A r \in Slots : ~InFlight(r)

(* --------------------- properties: cleanup and validity ----------------- *)
\* C17: a run of the cleanup job deletes no valid token: every row it
\* removes has revoked_at set or expired_at < now, and a token validate
\* accepts before the run is accepted after it.
C17_PurgeKeepsValid ==
    [][CleanupRan =>
          /\ \A x \in refresh_tokens \ refresh_tokens' :
                 x.revoked_at # NULL \/ x.expired_at < now
          /\ \A raw \in 0..Issued :
                 validate_refresh_token(raw, now) = "Ok"
                     => validate_refresh_token(raw, now)' = "Ok"]_vars

\* C17 witness: after a run that deleted a row, a stored token validates
C17_Witness ==
    /\ sweeps >= 1
    /\ Cardinality(refresh_tokens) < Issued
    /\ \E x \in refresh_tokens : validate_refresh_token(RawOf(x), now) = "Ok"

(* ------------------------ properties: failed checks --------------------- *)
\* a login is refused by authenticate
LoginRefused == req' = req /\ resp'.op = "login" /\ resp'.res = "Unauthorized"

\* slot r passes authenticate and goes on to issue a pair
LoginProceeds(r) == req[r].pc = "idle" /\ req'[r].op = "login"

C18_FailedCheckWritesNothing ==
    /\ (LoginRefused \/ RefreshRefused) =>
          /\ refresh_tokens' = refresh_tokens
          /\ nextRaw' = nextRaw
    /\ (resp'.op = "refresh" /\ resp'.res \in {"NotFound", "Expired", "Revoked"})
          => RefreshRefused
    /\ \A r \in Slots :
          /\ (LoginProceeds(r) \/ RefreshProceeds(r))
                => refresh_tokens' = refresh_tokens
          /\ RefreshProceeds(r)
                => validate_refresh_token(req'[r].tok, now) = "Ok"
          /\ LoginProceeds(r) => UserById(req'[r].user) # {}
    /\ refresh_tokens' # refresh_tokens
          => \/ CleanupRan
             \/ \E r \in Slots : req[r].pc \in {"issue", "revoke"}

\* C18: a login that authenticate refuses and a refresh that validate refuses
\* leave refresh_tokens as it is: no row is added and no revoked_at is set;
\* rows are written only by a request that has passed its check.
C18_FailedCheckNoWrite == [][C18_FailedCheckWritesNothing]_vars

\* C18 witness: a refresh has just been refused as Revoked while the token
\* that replaced the presented one is stored and untouched
C18_Witness ==
    /\ resp.op = "refresh" /\ resp.res = "Revoked"
    /\ Cardinality(refresh_tokens) = Issued
    /\ \E x \in refresh_tokens : x.id > resp.tok /\ x.revoked_at = NULL

(* ------------------------- the job under fairness ----------------------- *)
\* scheduler.add_job(cleanup_expired_tokens, "interval", hours=1): while the
\* job has rows to delete it is not put off forever
FairSpec == Init /\ [][Next]_vars /\ WF_vars(cleanup_expired_tokens)

\* the row of raw token k is stored and the WHERE clause of the job selects it
Stale(k) ==
    \E x \in RowsOf(k) : PastExpiry(x, now) \/ RevokedLongAgo(x, now)

\* C19: with the job run again and again, a row that is past its expiry, or
\* that has been revoked for more than the retention window, is eventually
\* deleted: rows that cannot validate any more do not stay for ever.
C19_StaleEventuallyDeleted ==
    \A k \in 1..MaxTokens : Stale(k) ~> (RowsOf(k) = {})

\* C19 witness: every token issued has been deleted and no request is in
\* flight
C19_Witness ==
    /\ Issued >= 2
    /\ refresh_tokens = {}
    /\ scheduler.last = "ok"
    /\ \A r \in Slots : ~InFlight(r)

====
